---- MODULE Spec2Model ----
(***************************************************************************)
(* The Jellyfin "item added" webhook of jellyfinWebhook.js: the debounce   *)
(* map (debouncedSenders), the suppression map (sentNotifications), the    *)
(* timers armed with setTimeout and the asynchronous flush started by the  *)
(* debounce timer, which suspends in processAndSendNotification.           *)
(*                                                                         *)
(* Time is kept as the number of milliseconds each armed timer still has   *)
(* to run.  Advance lets time pass, never beyond the next due timer; a     *)
(* timer whose remaining time is 0 is due and its callback can run.        *)
(*                                                                         *)
(* Further specifications share the module.  RoutingSpec is the webhook   *)
(* called for two guilds.  ComposeSpec follows one call of                 *)
(* processAndSendNotification through its metadata lookups to the embed it *)
(* sends.  DbSpec is the store of db.js: prepareDatabase with its          *)
(* migrations, getConfig and setConfig.  ConfigApiSpec is POST /api/config *)
(* of app.js over that store, and InteractionSpec is handleInteraction of  *)
(* app.js with its callers.  Each specification leaves the variables of    *)
(* the others as Init sets them.                                           *)
(***************************************************************************)
EXTENDS Integers, Sequences, FiniteSets, TLC

\* ---------------------------------------------------------------- bounds
MaxEvents == 3

\* ------------------------------------------------------ program constants
DebounceMs == 30000
CleanupMs == 24 * 60 * 60 * 1000

\* Granularity of the passage of time while a debounce window is open.
StepMs == DebounceMs \div 3

\* The series ids of the events, and the SeriesId of an event that has none.
Keys == {"S1", "S2"}
NoKey == ""
ItemTypes == {"Series", "Season", "Episode", "Movie", "Audio"}
NotificationTypes == {"ItemAdded", "PlaybackStart"}
ConfigStates == {"ok", "absent", "nochannel", "nourl"}
\* The guilds (the guildId of a webhook URL, the guild_id of a configuration).
Guilds == {"G1", "G2"}

\* An event: its ItemType and SeriesId, and seq, which tells apart the events
\* taken into one entry of debouncedSenders (the first is 1, and so on; 0 for
\* an event that is taken into none).  guild: the guild of the webhook call
\* that brought it.
NoEvent == [seq |-> 0, ItemType |-> "none", SeriesId |-> NoKey, guild |-> ""]

VARIABLES
    debouncedSenders,   \* Map SeriesId -> {timer, latestData}, with the config of the timer's closure
    sentNotifications,  \* Map SeriesId -> {level, cleanupTimer}
    debounceTimers,     \* per SeriesId, remaining ms of each armed debounce timer
    cleanupTimers,      \* per SeriesId, remaining ms of the armed cleanup timers
    flushing,           \* per SeriesId, the suspended debounce callbacks
    nsub,               \* number of webhook calls received
    batch,              \* history: events taken into the entry of a SeriesId since it was created
    nfired,             \* history: debounce callbacks that found the entry of a SeriesId
    pendingAge,         \* history: ms since the entry of a SeriesId was created, until its timer fires
    nsent,              \* history: calls of channel.send for the entry of a SeriesId since it was created
    last,               \* the step just taken and the response it gave
    call,               \* ComposeSpec: the call of processAndSendNotification under way
    user_version,       \* DbSpec: PRAGMA user_version of the database file
    schema,             \* DbSpec: the tables of the database file and their columns
    configs,            \* DbSpec: the rows of table configs, in rowid order
    proc,               \* DbSpec: the process: where it is, and prepareDatabase's loop
    dbLast,             \* DbSpec: the call just made and what it returned
    http,               \* ConfigApiSpec: the last POST /api/config and its response
    inter               \* InteractionSpec: the Discord interaction being handled

engineVars == <<debouncedSenders, sentNotifications, debounceTimers, cleanupTimers,
                flushing, nsub, batch, nfired, pendingAge, nsent, last>>
dbVars == <<user_version, schema, configs, proc, dbLast>>
appVars == <<http, inter>>
vars == <<debouncedSenders, sentNotifications, debounceTimers, cleanupTimers,
          flushing, nsub, batch, nfired, pendingAge, nsent, last,
          call, user_version, schema, configs, proc, dbLast, http, inter>>

\* ---------------------------------------------------------------- helpers
MapSet(m, k, v) == [x \in (DOMAIN m) \cup {k} |-> IF x = k THEN v ELSE m[x]]
MapDelete(m, k) == [x \in (DOMAIN m) \ {k} |-> m[x]]

RemoveAt(s, i) == [j \in 1..(Len(s) - 1) |-> IF j < i THEN s[j] ELSE s[j + 1]]

Min(S) == CHOOSE x \in S : \A y \in S : x <= y
Max(S) == CHOOSE x \in S : \A y \in S : x >= y
Dec(t, d) == IF t > d THEN t - d ELSE 0

getItemLevel(itemType) ==
    CASE itemType = "Series" -> 3
      [] itemType = "Season" -> 2
      [] itemType = "Episode" -> 1
      [] OTHER -> 0

IsAggregated_nonMovie(itemType) == itemType # "Movie"
IsAggregated(itemType) == itemType \in {"Series", "Season", "Episode"}

\* sentLevel of the handler: the level of the record of the SeriesId, else 0.
SentLevel_any(sn, sid) ==
    IF DOMAIN sn = {} THEN 0 ELSE Max({sn[k].level : k \in DOMAIN sn})
SentLevel_nokey(sn, sid) ==
    IF sid \in DOMAIN sn THEN sn[sid].level
    ELSE IF sid = NoKey /\ DOMAIN sn # {} THEN Max({sn[k].level : k \in DOMAIN sn})
    ELSE 0
SentLevel(sn, sid) == IF sid \in DOMAIN sn THEN sn[sid].level ELSE 0

IsSuppressed_lt(currentLevel, sentLevel) == currentLevel < sentLevel
IsSuppressed_never(currentLevel, sentLevel) == FALSE
IsSuppressed_onlyEqual(currentLevel, sentLevel) == currentLevel = sentLevel
IsSuppressed_offByOne(currentLevel, sentLevel) == currentLevel <= sentLevel + 1
IsSuppressed(currentLevel, sentLevel) == currentLevel <= sentLevel

ShouldReplace_always(currentLevel, existingLevel) == TRUE
ShouldReplace_gt(currentLevel, existingLevel) == currentLevel > existingLevel
ShouldReplace(currentLevel, existingLevel) == currentLevel >= existingLevel

Response(status, body) == [status |-> status, body |-> body]
\* A step: the operation, its SeriesId, the event it handled, the event it
\* handed to channel.send (NoEvent: none) and the response of a webhook call.
\* req: of a webhook call, what the handler checks before it looks at the item.
NoRequest == [hasItemId |-> FALSE, ntype |-> "none", cfg |-> "none"]
Step(op, key, data, sink, res) ==
    [op |-> op, key |-> key, data |-> data, sink |-> sink, res |-> res,
     req |-> NoRequest]
WebhookStep(req, key, data, sink, res) ==
    [op |-> "webhook", key |-> key, data |-> data, sink |-> sink, res |-> res,
     req |-> req]
NoResponse == Response(0, "")

EngineInit ==
    /\ debouncedSenders = <<>>
    /\ sentNotifications = <<>>
    /\ debounceTimers = [k \in Keys |-> <<>>]
    /\ cleanupTimers = [k \in Keys |-> {}]
    /\ flushing = [k \in Keys |-> <<>>]
    /\ nsub = 0
    /\ batch = [k \in Keys |-> <<>>]
    /\ nfired = [k \in Keys |-> 0]
    /\ pendingAge = [k \in Keys |-> 0]
    /\ nsent = [k \in Keys |-> 0]
    /\ last = Step("init", NoKey, NoEvent, NoEvent, NoResponse)

\* ------------------------------------------------- processAndSendNotification
\* Text the composer takes apart or puts together is a sequence of characters;
\* <<>> is the empty string and stands for a missing field as well (both are
\* falsy where the code tests them).
NA == <<"N", "/", "A">>
DigitChars == <<"0", "1", "2", "3", "4", "5", "6", "7", "8", "9">>
IsDigit(c) == \E d \in 1..Len(DigitChars) : DigitChars[d] = c

\* String(n) of a number below 100.
NumStr(n) ==
    IF n < 10 THEN <<DigitChars[n + 1]>>
    ELSE <<DigitChars[(n \div 10) + 1], DigitChars[(n % 10) + 1]>>

\* String(s).match(/(\d+)/)[1]: the first run of digits of s, as long as it
\* goes; <<>> when s has no digit (match is null).
FirstDigits(s) ==
    LET at == {i \in 1..Len(s) : IsDigit(s[i])}
    IN  IF at = {} THEN <<>>
        ELSE LET a == Min(at)
                 b == Max({j \in a..Len(s) : \A m \in a..j : IsDigit(s[m])})
             IN  SubSeq(s, a, b)

minutesToHhMm(mins) ==
    IF mins <= 0 THEN NA
    ELSE LET h == mins \div 60
             m == mins % 60
         IN  (IF h > 0 THEN NumStr(h) \o <<"h", " ">> ELSE <<>>)
                \o NumStr(m) \o <<"m">>

\* The event as far as the composer reads it for its lookups and for the
\* fields below: ItemType, Provider_tmdb and Provider_imdb ("": none), and
\* Genres: missing, an array of names or a string.
TmdbIds == {"", "603"}
ImdbIds == {"", "ttW"}
NoGenres == [isArray |-> FALSE, v |-> <<>>]
EventGenres ==
    {NoGenres, [isArray |-> TRUE, v |-> <<>>],
     [isArray |-> TRUE, v |-> <<"Action", "Drama">>],
     [isArray |-> FALSE, v |-> <<"Action">>]}
ComposeData ==
    [ItemType : ItemTypes, Provider_tmdb : TmdbIds, Provider_imdb : ImdbIds,
     Genres : EventGenres]
\* config.tmdb_api_key and config.omdb_api_key ("": not set).
ApiKeys == {"", "key"}
ComposeConfig == [tmdb_api_key : ApiKeys, omdb_api_key : ApiKeys]

\* res.data of the TMDB request: external_ids.imdb_id ("": none), runtime in
\* minutes (0: none), overview ("": none), the names of genres (<<>>: none)
\* and credits.crew (<<>>: none).  NoDetails is details = null.
TmdbCrews ==
    {<<>>,
     <<[job |-> "Director", name |-> "D"]>>,
     <<[job |-> "Writer", name |-> "W"],
       [job |-> "Executive Producer", name |-> "E"],
       [job |-> "Creator", name |-> "C"]>>}
TmdbGenres == {<<>>, <<"Drama", "Sci-Fi">>}
TmdbData ==
    [ok : {TRUE}, imdb_id : {"", "ttT"}, runtime : {0, 45, 95},
     overview : {"", "A plot."}, genres : TmdbGenres, crew : TmdbCrews]
NoDetails ==
    [ok |-> FALSE, imdb_id |-> "", runtime |-> 0, overview |-> "",
     genres |-> <<>>, crew |-> <<>>]

\* res.data of the OMDb request: Runtime and imdbRating, each missing (<<>>),
\* "N/A" or a value, and Director, missing (""), "N/A" or a name.  NoOmdb is
\* omdb = null.
OmdbRuntimes ==
    {<<>>, NA, <<"9", "5", " ", "m", "i", "n">>, <<"1", " ", "h", " ", "5", " ", "m">>,
     <<"m", "i", "n">>}
OmdbRatings == {<<>>, NA, <<"7", ".", "1">>}
OmdbDirectors == {"", "N/A", "Nolan"}
OmdbData ==
    [ok : {TRUE}, Runtime : OmdbRuntimes, imdbRating : OmdbRatings,
     Director : OmdbDirectors]
NoOmdb == [ok |-> FALSE, Runtime |-> <<>>, imdbRating |-> <<>>, Director |-> ""]

\* The IMDb id after the TMDB lookup: that of TMDB's external_ids when the
\* lookup gave one, else the event's own.
ResolveImdbId_webhookFirst(imdbIdFromWebhook, details) ==
    IF imdbIdFromWebhook # "" THEN imdbIdFromWebhook ELSE details.imdb_id
ResolveImdbId(imdbIdFromWebhook, details) ==
    IF details.ok /\ details.imdb_id # "" THEN details.imdb_id
    ELSE imdbIdFromWebhook

\* The fields of the embed that are reconciled from the two lookups.
Runtime_uniform(ItemType, details, omdb) ==
    IF omdb.ok /\ omdb.Runtime # <<>> /\ omdb.Runtime # NA
    THEN IF FirstDigits(omdb.Runtime) # <<>>
         THEN FirstDigits(omdb.Runtime) \o <<" ", "m", "i", "n">>
         ELSE NA
    ELSE IF details.ok /\ details.runtime > 0
    THEN minutesToHhMm(details.runtime)
    ELSE NA
Runtime(ItemType, details, omdb) ==
    IF omdb.ok /\ omdb.Runtime # <<>> /\ omdb.Runtime # NA
    THEN IF FirstDigits(omdb.Runtime) # <<>>
         THEN FirstDigits(omdb.Runtime) \o <<" ", "m", "i", "n">>
         ELSE NA
    ELSE IF ItemType = "Movie" /\ details.ok /\ details.runtime > 0
    THEN minutesToHhMm(details.runtime)
    ELSE NA

Rating(omdb) ==
    IF omdb.ok /\ omdb.imdbRating # <<>> /\ omdb.imdbRating # NA
    THEN omdb.imdbRating \o <<"/", "1", "0">>
    ELSE NA

OverviewText(details) ==
    IF details.ok /\ details.overview # ""
    THEN details.overview ELSE "No description available."

\* names.join(", "): the names with ", " between them; <<>> is the empty
\* string.
RECURSIVE Join(_)
Join(names) ==
    IF Len(names) = 0 THEN <<>>
    ELSE IF Len(names) = 1 THEN <<names[1]>>
    ELSE <<names[1], ", ">> \o Join(Tail(names))

\* The genre field: TMDB's genre names, else the event's Genres (joined when
\* it is an array), else "N/A"; each || passes over an empty string.
GenreList_eventFirst(Genres, details) ==
    IF Join(Genres.v) # <<>> THEN Join(Genres.v)
    ELSE IF details.ok /\ Join(details.genres) # <<>> THEN Join(details.genres)
    ELSE NA
GenreList(Genres, details) ==
    IF details.ok /\ Join(details.genres) # <<>> THEN Join(details.genres)
    ELSE IF Genres.isArray /\ Join(Genres.v) # <<>> THEN Join(Genres.v)
    ELSE IF ~Genres.isArray /\ Genres.v # <<>> THEN Genres.v
    ELSE NA

\* crew.find(c => c.job === "Creator" || c.job === "Executive Producer"): the
\* position of the first such credit, 0 when there is none.
FindCreator(crew) ==
    LET at == {i \in 1..Len(crew) : crew[i].job \in {"Creator", "Executive Producer"}}
    IN  IF at = {} THEN 0 ELSE Min(at)

\* The name of the first field of the embed.
HeaderLine_anyType(ItemType, details, omdb) ==
    IF omdb.ok /\ omdb.Director # "" /\ omdb.Director # "N/A"
    THEN <<"Directed by ", omdb.Director>>
    ELSE IF details.ok /\ FindCreator(details.crew) # 0
    THEN <<"Created by ", details.crew[FindCreator(details.crew)].name>>
    ELSE <<"Summary">>
HeaderLine(ItemType, details, omdb) ==
    IF ItemType = "Movie"
    THEN IF omdb.ok /\ omdb.Director # "" /\ omdb.Director # "N/A"
         THEN <<"Directed by ", omdb.Director>>
         ELSE <<"Summary">>
    ELSE IF ItemType \in {"Series", "Season", "Episode"}
    THEN IF details.ok /\ FindCreator(details.crew) # 0
         THEN <<"Created by ", details.crew[FindCreator(details.crew)].name>>
         ELSE <<"Summary">>
    ELSE <<"Summary">>

NoPayload ==
    [runtime |-> <<>>, rating |-> <<>>, overview |-> "", header |-> <<>>,
     genre |-> <<>>]
Embed(c) ==
    [runtime |-> Runtime(c.data.ItemType, c.details, c.omdb),
     rating |-> Rating(c.omdb),
     overview |-> OverviewText(c.details),
     header |-> HeaderLine(c.data.ItemType, c.details, c.omdb),
     genre |-> GenreList(c.data.Genres, c.details)]

\* A call: where it is suspended (pc), its arguments, its locals details,
\* imdbId and omdb, the embed once it is built, and as history the requests
\* it made (asked: the API and the id asked for) and those that were rejected.
NoCall ==
    [pc |-> "idle",
     data |-> [ItemType |-> "none", Provider_tmdb |-> "", Provider_imdb |-> "",
               Genres |-> NoGenres],
     config |-> [tmdb_api_key |-> "", omdb_api_key |-> ""],
     details |-> NoDetails, imdbId |-> "", omdb |-> NoOmdb,
     payload |-> NoPayload, asked |-> <<>>, rejected |-> {}]

ComposeInit == call = NoCall

\* From the OMDb lookup on: the embed and the buttons are built without
\* suspending, and the call waits for channels.fetch.
Built(c) == [c EXCEPT !.pc = "fetch", !.payload = Embed(c)]

\* From the TMDB lookup on: fetchOMDbData is called when there is an IMDb id;
\* it asks OMDb only with an API key, and returns null otherwise.
AfterTmdb(c) ==
    IF c.imdbId # "" /\ c.config.omdb_api_key # ""
    THEN [c EXCEPT !.pc = "omdb",
                   !.asked = Append(@, [api |-> "omdb", id |-> c.imdbId])]
    ELSE Built(c)

ComposeOthers == UNCHANGED <<engineVars, dbVars, appVars>>

ComposeStart(data, config) ==
    /\ call.pc = "idle"
    /\ LET c == [NoCall EXCEPT !.data = data, !.config = config,
                               !.imdbId = data.Provider_imdb]
       IN  call' = IF data.Provider_tmdb # "" /\ config.tmdb_api_key # ""
                   THEN [c EXCEPT !.pc = "tmdb",
                                  !.asked = <<[api |-> "tmdb", id |-> data.Provider_tmdb]>>]
                   ELSE AfterTmdb(c)
    /\ ComposeOthers

TmdbResolve(d) ==
    /\ call.pc = "tmdb"
    /\ call' = AfterTmdb([call EXCEPT !.details = d,
                                      !.imdbId = ResolveImdbId(@, d)])
    /\ ComposeOthers

\* What becomes of the call when a lookup is rejected (an error status, no
\* answer within the timeout): the rejection is caught and the call goes on
\* without the data.
TmdbRejected_rethrown(c) == [c EXCEPT !.pc = "thrown", !.rejected = @ \cup {"tmdb"}]
TmdbRejected(c) == AfterTmdb([c EXCEPT !.rejected = @ \cup {"tmdb"}])

OmdbRejected_rethrown(c) == [c EXCEPT !.pc = "thrown", !.rejected = @ \cup {"omdb"}]
OmdbRejected(c) == Built([c EXCEPT !.rejected = @ \cup {"omdb"}])

TmdbReject ==
    /\ call.pc = "tmdb"
    /\ call' = TmdbRejected(call)
    /\ ComposeOthers

OmdbResolve(o) ==
    /\ call.pc = "omdb"
    /\ call' = Built([call EXCEPT !.omdb = o])
    /\ ComposeOthers

OmdbReject ==
    /\ call.pc = "omdb"
    /\ call' = OmdbRejected(call)
    /\ ComposeOthers

\* channels.fetch and channel.send: each resolves, or rejects and the call
\* throws.
ChannelFetch(ok) ==
    /\ call.pc = "fetch"
    /\ call' = [call EXCEPT !.pc = IF ok THEN "send" ELSE "thrown"]
    /\ ComposeOthers

ChannelSend(ok) ==
    /\ call.pc = "send"
    /\ call' = [call EXCEPT !.pc = IF ok THEN "sent" ELSE "thrown"]
    /\ ComposeOthers

\* The call is over: its promise is settled and its locals are gone.
ComposeReturn ==
    /\ call.pc \in {"sent", "thrown"}
    /\ call' = NoCall
    /\ ComposeOthers

ComposeNext ==
    \/ \E data \in ComposeData, config \in ComposeConfig : ComposeStart(data, config)
    \/ ComposeReturn
    \/ \E d \in TmdbData : TmdbResolve(d)
    \/ TmdbReject
    \/ \E o \in OmdbData : OmdbResolve(o)
    \/ OmdbReject
    \/ \E ok \in BOOLEAN : ChannelFetch(ok)
    \/ \E ok \in BOOLEAN : ChannelSend(ok)

\* What a call can come to: the channel is fetched and channel.send resolves;
\* channels.fetch rejects (nothing is handed to the sink); channel.send is
\* called and rejects.  Failed metadata lookups are caught inside and never
\* make the call throw.
SendOutcomes == {"ok", "nochannel", "senderror"}
HandedToSink(outcome) == outcome # "nochannel"

\* The bypass call of the handler: awaited inside the webhook call, it reads
\* and writes none of the two maps, so the call and its outcome are one step.
BypassSent(data, outcome) == IF HandedToSink(outcome) THEN data ELSE NoEvent

BypassResponse(body, outcome) ==
    IF outcome = "ok" THEN Response(200, body) ELSE Response(500, "Error")

\* ------------------------------------------------------- handleJellyfinWebhook
\* The debounce timers of a SeriesId after a submission: a timer is armed
\* only when the map has no entry for the SeriesId.
ArmDebounce_sliding(timers, has) == <<DebounceMs>>
ArmDebounce_always(timers, has) == Append(timers, DebounceMs)
ArmDebounce(timers, has) == IF has THEN timers ELSE Append(timers, DebounceMs)

EngineUnchanged ==
    UNCHANGED <<debouncedSenders, sentNotifications, debounceTimers,
                cleanupTimers, flushing, batch, nfired, pendingAge, nsent>>

\* The request as far as the handler's first checks read it, and the one
\* request that passes them.
ReqOf(r) == [hasItemId |-> r.hasItemId, ntype |-> r.ntype, cfg |-> r.cfg]
PassedReq == [hasItemId |-> TRUE, ntype |-> "ItemAdded", cfg |-> "ok"]

Reject(r, res) ==
    /\ last' = WebhookStep(ReqOf(r), NoKey, NoEvent, NoEvent, res)
    /\ nsub' = nsub + 1
    /\ EngineUnchanged

Bypass(req, data, body, outcome) ==
    /\ nsub' = nsub + 1
    /\ last' = WebhookStep(req, NoKey, data, BypassSent(data, outcome),
                           BypassResponse(body, outcome))
    /\ EngineUnchanged

Skip(req, data) ==
    /\ nsub' = nsub + 1
    /\ last' = WebhookStep(req, data.SeriesId, data, NoEvent,
                           Response(200, "skipped"))
    /\ EngineUnchanged

Debounce_recreate(req, event) ==
    LET sid == event.SeriesId
        has == sid \in DOMAIN debouncedSenders
        data == [event EXCEPT !.seq = IF has THEN Len(batch[sid]) + 1 ELSE 1]
    IN  /\ nsub' = nsub + 1
        /\ debounceTimers' =
              [debounceTimers EXCEPT ![sid] = ArmDebounce(@, has)]
        /\ debouncedSenders' =
              MapSet(debouncedSenders, sid,
                     [timer |-> IF has THEN debouncedSenders[sid].timer ELSE DebounceMs,
                      latestData |-> data,
                      config |-> IF has THEN debouncedSenders[sid].config ELSE data.guild])
        /\ batch' = [batch EXCEPT ![sid] = IF has THEN Append(@, data) ELSE <<data>>]
        /\ nfired' = [nfired EXCEPT ![sid] = IF has THEN @ ELSE 0]
        /\ pendingAge' = [pendingAge EXCEPT ![sid] = IF has THEN @ ELSE 0]
        /\ nsent' = [nsent EXCEPT ![sid] = IF has THEN @ ELSE 0]
        /\ last' = WebhookStep(req, sid, data, NoEvent,
                               Response(200, "debounced"))
        /\ UNCHANGED <<sentNotifications, cleanupTimers, flushing>>

\* The callback of the timer is a closure over the config of the call that
\* armed it; an entry has the one timer armed with it, so the model keeps that
\* config in the entry.
Debounce(req, event) ==
    LET sid == event.SeriesId
        has == sid \in DOMAIN debouncedSenders
        data == [event EXCEPT !.seq = IF has THEN Len(batch[sid]) + 1 ELSE 1]
        currentLevel == getItemLevel(data.ItemType)
        created == IF has THEN debouncedSenders
                   ELSE MapSet(debouncedSenders, sid,
                               [timer |-> DebounceMs, latestData |-> data,
                                config |-> data.guild])
        existingLevel == getItemLevel(created[sid].latestData.ItemType)
    IN  /\ nsub' = nsub + 1
        /\ debounceTimers' =
              [debounceTimers EXCEPT ![sid] = ArmDebounce(@, has)]
        /\ debouncedSenders' =
              IF ShouldReplace(currentLevel, existingLevel)
              THEN [created EXCEPT ![sid].latestData = data]
              ELSE created
        /\ batch' = [batch EXCEPT ![sid] = IF has THEN Append(@, data) ELSE <<data>>]
        /\ nfired' = [nfired EXCEPT ![sid] = IF has THEN @ ELSE 0]
        /\ pendingAge' = [pendingAge EXCEPT ![sid] = IF has THEN @ ELSE 0]
        /\ nsent' = [nsent EXCEPT ![sid] = IF has THEN @ ELSE 0]
        /\ last' = WebhookStep(req, sid, data, NoEvent,
                               Response(200, "debounced"))
        /\ UNCHANGED <<sentNotifications, cleanupTimers, flushing>>

\* The webhook calls: the request (its body's ItemId present or not, its
\* NotificationType, ItemType and SeriesId), what getConfigForGuild returns
\* for its guild, and what a bypass call of processAndSendNotification comes
\* to.  A request that is rejected before its item is looked at is drawn
\* with one ItemType and SeriesId only, one that never reaches a bypass call
\* with one outcome only: the handler reads none of them there.
WellFormed(r) == r.hasItemId /\ r.ntype = "ItemAdded" /\ r.cfg = "ok"
IsBypass(r) == ~IsAggregated(r.itype) \/ r.sid = NoKey

\* Spec follows the webhook calls of one guild.
Requests ==
    {r \in [hasItemId : BOOLEAN, ntype : NotificationTypes, cfg : ConfigStates,
            itype : ItemTypes, sid : Keys \cup {NoKey}, outcome : SendOutcomes,
            guild : {"G1"}] :
        /\ ~WellFormed(r) => r.itype = "Movie" /\ r.sid = NoKey
        /\ ~(WellFormed(r) /\ IsBypass(r)) => r.outcome = "ok"}

\* RoutingSpec follows the calls of all guilds that reach the debounce map:
\* ItemAdded events of configured guilds, of the aggregated types, with a
\* SeriesId.
RoutingRequests ==
    [hasItemId : {TRUE}, ntype : {"ItemAdded"}, cfg : {"ok"},
     itype : {"Series", "Season", "Episode"}, sid : Keys, outcome : {"ok"},
     guild : Guilds]

\* The first checks of the handler: the body and its ItemId, and the
\* configuration of the guild.
HasValidData_itemAddedOnly(r) == r.hasItemId \/ r.ntype # "ItemAdded"
HasValidData(r) == r.hasItemId

ConfigComplete_channelOnly(cfg) == cfg \notin {"absent", "nochannel"}
ConfigComplete(cfg) == cfg = "ok"

Webhook(r) ==
    LET data == [seq |-> 0, ItemType |-> r.itype, SeriesId |-> r.sid,
                 guild |-> r.guild]
        sentLevel == SentLevel(sentNotifications, r.sid)
        currentLevel == getItemLevel(r.itype)
    IN  IF ~HasValidData(r) THEN Reject(r, Response(400, "No valid data"))
        ELSE IF r.ntype # "ItemAdded" THEN Reject(r, Response(200, "ignored"))
        ELSE IF ~ConfigComplete(r.cfg) THEN Reject(r, Response(404, "incomplete"))
        ELSE IF r.itype = "Movie"
        THEN Bypass(ReqOf(r), data, "Movie sent", r.outcome)
        ELSE IF IsAggregated(r.itype)
        THEN IF IsSuppressed(currentLevel, sentLevel) THEN Skip(ReqOf(r), data)
             ELSE IF r.sid = NoKey
             THEN Bypass(ReqOf(r), data, "TV sent", r.outcome)
             ELSE Debounce(ReqOf(r), data)
        ELSE Bypass(ReqOf(r), data, "sent", r.outcome)

\* ------------------------------------------------------ debounceTimer callback
\* A suspended callback: data is the argument it gave processAndSendNotification,
\* pc where it waits ("compose": metadata and channels.fetch, "send": channel.send).
\* Its local debouncer is the object it read from the map: while inMap, the
\* object that is the entry of the SeriesId; once that entry was deleted, the
\* object as it was left (latestData).
\* config is the config of the closure, the third argument of the call.
Flight(data, n, config) ==
    [data |-> data, pc |-> "compose", inMap |-> TRUE, latestData |-> data,
     n |-> n, config |-> config]

DebouncerData(k, f) ==
    IF f.inMap THEN debouncedSenders[k].latestData ELSE f.latestData

\* The callback up to its await: reads the entry and calls
\* processAndSendNotification with the event held at this instant.
DebounceFire(k, i) ==
    /\ i \in 1..Len(debounceTimers[k])
    /\ debounceTimers[k][i] = 0
    /\ debounceTimers' = [debounceTimers EXCEPT ![k] = RemoveAt(@, i)]
    /\ IF k \in DOMAIN debouncedSenders
       THEN /\ flushing' = [flushing EXCEPT ![k] =
                   Append(@, Flight(debouncedSenders[k].latestData, Len(batch[k]),
                                    debouncedSenders[k].config))]
            /\ nfired' = [nfired EXCEPT ![k] = @ + 1]
            /\ last' = Step("fire", k, debouncedSenders[k].latestData, NoEvent, NoResponse)
       ELSE /\ UNCHANGED <<flushing, nfired>>
            /\ last' = Step("fire", k, NoEvent, NoEvent, NoResponse)
    /\ UNCHANGED <<debouncedSenders, sentNotifications, cleanupTimers, nsub,
                   batch, pendingAge, nsent>>

Dispatch_latest(k, i) ==
    /\ i \in 1..Len(flushing[k])
    /\ flushing[k][i].pc = "compose"
    /\ flushing' = [flushing EXCEPT ![k][i].pc = "send"]
    /\ last' = Step("dispatch", k, flushing[k][i].data,
                    DebouncerData(k, flushing[k][i]), NoResponse)
    /\ nsent' = [nsent EXCEPT ![k] = @ + 1]
    /\ UNCHANGED <<debouncedSenders, sentNotifications, debounceTimers,
                   cleanupTimers, nsub, batch, nfired, pendingAge>>

\* channels.fetch resolved and channel.send is called with the embed.
Dispatch(k, i) ==
    /\ i \in 1..Len(flushing[k])
    /\ flushing[k][i].pc = "compose"
    /\ flushing' = [flushing EXCEPT ![k][i].pc = "send"]
    /\ last' = Step("dispatch", k, flushing[k][i].data, flushing[k][i].data, NoResponse)
    /\ nsent' = [nsent EXCEPT ![k] = @ + 1]
    /\ UNCHANGED <<debouncedSenders, sentNotifications, debounceTimers,
                   cleanupTimers, nsub, batch, nfired, pendingAge>>

\* The level the callback records after the await: that of debouncer.latestData
\* as it is when the callback resumes.
LevelSent(k, f) == getItemLevel(DebouncerData(k, f).ItemType)

\* The callbacks of k left suspended when the entry of k is deleted: their
\* debouncer object is no longer the one in the map.
Detach(k, fs) ==
    [j \in 1..Len(fs) |->
        IF fs[j].inMap
        THEN [fs[j] EXCEPT !.inMap = FALSE,
                           !.latestData = debouncedSenders[k].latestData]
        ELSE fs[j]]

\* channel.send resolved: the rest of the callback runs without suspending.
FlushDone(k, i) ==
    /\ i \in 1..Len(flushing[k])
    /\ flushing[k][i].pc = "send"
    /\ LET f == flushing[k][i]
       IN  /\ cleanupTimers' = [cleanupTimers EXCEPT ![k] = @ \cup {CleanupMs}]
           /\ sentNotifications' =
                 MapSet(sentNotifications, k,
                        [level |-> LevelSent(k, f), cleanupTimer |-> CleanupMs])
           /\ debouncedSenders' = MapDelete(debouncedSenders, k)
           /\ flushing' = [flushing EXCEPT ![k] = Detach(k, RemoveAt(@, i))]
           /\ last' = Step("flushDone", k, f.data, NoEvent, NoResponse)
    /\ UNCHANGED <<debounceTimers, nsub, batch, nfired, pendingAge, nsent>>

FlushFail_recording(k, i) ==
    /\ i \in 1..Len(flushing[k])
    /\ flushing' = [flushing EXCEPT ![k] = RemoveAt(@, i)]
    /\ cleanupTimers' = [cleanupTimers EXCEPT ![k] = @ \cup {CleanupMs}]
    /\ sentNotifications' =
          MapSet(sentNotifications, k,
                 [level |-> getItemLevel(flushing[k][i].data.ItemType),
                  cleanupTimer |-> CleanupMs])
    /\ last' = Step("flushFail", k, flushing[k][i].data, NoEvent, NoResponse)
    /\ UNCHANGED <<debouncedSenders, debounceTimers, nsub, batch, nfired, pendingAge, nsent>>

FlushFail_retry(k, i) ==
    /\ i \in 1..Len(flushing[k])
    /\ flushing' = [flushing EXCEPT ![k] = RemoveAt(@, i)]
    /\ debounceTimers' = [debounceTimers EXCEPT ![k] = Append(@, DebounceMs)]
    /\ last' = Step("flushFail", k, flushing[k][i].data, NoEvent, NoResponse)
    /\ UNCHANGED <<debouncedSenders, sentNotifications, cleanupTimers, nsub,
                   batch, nfired, pendingAge, nsent>>

\* processAndSendNotification threw (channels.fetch or channel.send rejected):
\* the callback ends there, with nothing after the await executed.  Nothing
\* catches the rejection of the callback's promise.  Where the runtime ends the
\* process on an unhandled rejection the run stops here and has no further
\* states; the step below is the run in which the process goes on.
FlushFail(k, i) ==
    /\ i \in 1..Len(flushing[k])
    /\ flushing' = [flushing EXCEPT ![k] = RemoveAt(@, i)]
    /\ last' = Step("flushFail", k, flushing[k][i].data, NoEvent, NoResponse)
    /\ UNCHANGED <<debouncedSenders, sentNotifications, debounceTimers,
                   cleanupTimers, nsub, batch, nfired, pendingAge, nsent>>

\* -------------------------------------------------------- cleanupTimer callback
CleanupFire_wrongMap(k) ==
    /\ 0 \in cleanupTimers[k]
    /\ cleanupTimers' = [cleanupTimers EXCEPT ![k] = @ \ {0}]
    /\ debouncedSenders' = MapDelete(debouncedSenders, k)
    /\ last' = Step("cleanup", k, NoEvent, NoEvent, NoResponse)
    /\ UNCHANGED <<sentNotifications, debounceTimers, flushing, nsub, batch,
                   nfired, pendingAge, nsent>>

CleanupFire(k) ==
    /\ 0 \in cleanupTimers[k]
    /\ cleanupTimers' = [cleanupTimers EXCEPT ![k] = @ \ {0}]
    /\ sentNotifications' = MapDelete(sentNotifications, k)
    /\ last' = Step("cleanup", k, NoEvent, NoEvent, NoResponse)
    /\ UNCHANGED <<debouncedSenders, debounceTimers, flushing, nsub, batch,
                   nfired, pendingAge, nsent>>

\* ------------------------------------------------------------------------ time
ArmedTimers ==
    UNION {{debounceTimers[k][i] : i \in 1..Len(debounceTimers[k])} : k \in Keys}
      \cup UNION {cleanupTimers[k] : k \in Keys}

DebounceArmed == \E k \in Keys : debounceTimers[k] # <<>>
InFlight == \E k \in Keys : flushing[k] # <<>>

\* The amounts by which time passes, never beyond the next due timer.  While
\* a debounce window is open: one step (less when a timer is due sooner).
\* While none is open and no flush is suspended, only cleanup timers are
\* armed: up to the next due one, or up to one step before it.  A suspended
\* flush ends (its requests are bounded by timeouts of seconds) before time
\* passes otherwise.
Delays ==
    IF ArmedTimers = {} THEN {}
    ELSE IF DebounceArmed THEN {Min({StepMs, Min(ArmedTimers)})}
    ELSE IF InFlight THEN {}
    ELSE {Min(ArmedTimers), Min(ArmedTimers) - StepMs}

Advance(d) ==
    /\ d > 0
    /\ \A t \in ArmedTimers : d <= t
    /\ debounceTimers' =
          [k \in Keys |-> [i \in 1..Len(debounceTimers[k]) |-> debounceTimers[k][i] - d]]
    /\ cleanupTimers' = [k \in Keys |-> {t - d : t \in cleanupTimers[k]}]
    /\ debouncedSenders' =
          [k \in DOMAIN debouncedSenders |->
              [debouncedSenders[k] EXCEPT !.timer = Dec(@, d)]]
    /\ sentNotifications' =
          [k \in DOMAIN sentNotifications |->
              [sentNotifications[k] EXCEPT !.cleanupTimer = Dec(@, d)]]
    /\ pendingAge' =
          [k \in Keys |->
              IF k \in DOMAIN debouncedSenders /\ debounceTimers[k] # <<>>
              THEN pendingAge[k] + d ELSE pendingAge[k]]
    /\ last' = Step("advance", NoKey, NoEvent, NoEvent, NoResponse)
    /\ UNCHANGED <<flushing, nsub, batch, nfired, nsent>>

\* ----------------------------------------------------------------------- db.js
\* A statement of MIGRATIONS, as far as it changes the schema.
CreateTable(table, cols, ifNotExists) ==
    [op |-> "create", table |-> table, cols |-> cols, col |-> "", to |-> "",
     ifNotExists |-> ifNotExists]
AddColumn(col) ==
    [op |-> "addColumn", table |-> "configs", cols |-> {}, col |-> col, to |-> "",
     ifNotExists |-> FALSE]
RenameColumn(col, to) ==
    [op |-> "renameColumn", table |-> "configs", cols |-> {}, col |-> col, to |-> to,
     ifNotExists |-> FALSE]

\* MIGRATIONS[i] of db.js is MIGRATIONS[i + 1] here.
MIGRATIONS ==
    <<CreateTable("configs",
                  {"guild_id", "jellyseer_url", "jellyseer_api_key",
                   "notification_channel_id", "jellyfin_server_url", "embed_color"},
                  FALSE),
      AddColumn("ephemeral_responses"),
      AddColumn("color_success"),
      AddColumn("color_notification"),
      RenameColumn("embed_color", "color_search"),
      CreateTable("sessions", {"sid", "sess", "expire"}, TRUE)>>

\* The schema: which tables exist, each with its columns.
NoSchema == [t \in {} |-> {}]

\* db.exec of one statement: the schema it leaves, or an error (the table
\* exists already, the column exists already or is missing) that changes
\* nothing.
Exec(m, sch) ==
    CASE m.op = "create" ->
           IF m.table \in DOMAIN sch
           THEN [ok |-> m.ifNotExists, schema |-> sch]
           ELSE [ok |-> TRUE, schema |-> MapSet(sch, m.table, m.cols)]
      [] m.op = "addColumn" ->
           IF m.table \in DOMAIN sch /\ m.col \notin sch[m.table]
           THEN [ok |-> TRUE,
                 schema |-> [sch EXCEPT ![m.table] = @ \cup {m.col}]]
           ELSE [ok |-> FALSE, schema |-> sch]
      [] m.op = "renameColumn" ->
           IF m.table \in DOMAIN sch /\ m.col \in sch[m.table] /\ m.to \notin sch[m.table]
           THEN [ok |-> TRUE,
                 schema |-> [sch EXCEPT ![m.table] = (@ \ {m.col}) \cup {m.to}]]
           ELSE [ok |-> FALSE, schema |-> sch]

\* The guilds, and the configurations given to setConfig: a field that is
\* null or missing is Null.  The fields not listed in a set are the same in
\* every configuration drawn.
Null == "NULL"
Configs ==
    [guild_id : Guilds,
     jellyseer_url : {Null, "https://a", "https://b"},
     jellyseer_api_key : {"key"},
     notification_channel_id : {Null, "c1"},
     jellyfin_server_url : {"https://jf"},
     color_search : {"#ef9f76"},
     ephemeral_responses : {0},
     color_success : {"#a6d189"},
     color_notification : {"#cba6f7", "#112233"}]

\* The process (stopped: not running; migrating: in the loop of
\* prepareDatabase, about to handle MIGRATIONS[i]; ready: prepareDatabase
\* returned; exited: process.exit(1)), and as history the version its run of
\* prepareDatabase started from and the migrations that run applied.
Proc(pc, i, start, applied) ==
    [pc |-> pc, i |-> i, start |-> start, applied |-> applied]
DbStep(op, guild, config, ok, result) ==
    [op |-> op, guild |-> guild, config |-> config, ok |-> ok, result |-> result]
NoConfig == <<>>

DbInit ==
    /\ user_version = 0
    /\ schema = NoSchema
    /\ configs = <<>>
    /\ proc = Proc("stopped", 0, 0, <<>>)
    /\ dbLast = DbStep("init", "", NoConfig, TRUE, NoConfig)

DbOthers == UNCHANGED <<engineVars, call, appVars>>

\* prepareDatabase: the loop starts at the version read from the file, and a
\* migration sets the version to its index plus one.
FirstMigration_zero(currentVersion) == 0
FirstMigration(currentVersion) == currentVersion

NextVersion_same(i) == i
NextVersion(i) == i + 1

PrepareStart ==
    /\ proc.pc \in {"stopped", "ready", "exited"}
    /\ proc' = Proc("migrating", FirstMigration(user_version), user_version, <<>>)
    /\ dbLast' = DbStep("prepareDatabase", "", NoConfig, TRUE, NoConfig)
    /\ UNCHANGED <<user_version, schema, configs>>
    /\ DbOthers

\* One turn of the loop: the transaction executes the statement and sets the
\* version, or fails, is rolled back and the process exits.
Migrate ==
    /\ proc.pc = "migrating"
    /\ proc.i < Len(MIGRATIONS)
    /\ LET r == Exec(MIGRATIONS[proc.i + 1], schema)
       IN  IF r.ok
           THEN /\ schema' = r.schema
                /\ user_version' = NextVersion(proc.i)
                /\ proc' = [proc EXCEPT !.i = @ + 1, !.applied = Append(@, proc.i)]
                /\ dbLast' = DbStep("migrate", "", NoConfig, TRUE, NoConfig)
           ELSE /\ proc' = [proc EXCEPT !.pc = "exited"]
                /\ dbLast' = DbStep("migrate", "", NoConfig, FALSE, NoConfig)
                /\ UNCHANGED <<schema, user_version>>
    /\ UNCHANGED configs
    /\ DbOthers

PrepareEnd ==
    /\ proc.pc = "migrating"
    /\ proc.i >= Len(MIGRATIONS)
    /\ proc' = [proc EXCEPT !.pc = "ready"]
    /\ dbLast' = DbStep("prepared", "", NoConfig, TRUE, NoConfig)
    /\ UNCHANGED <<user_version, schema, configs>>
    /\ DbOthers

\* The process ends (it is stopped between two transactions, or later); the
\* file stays as it is.
Stop ==
    /\ proc.pc \in {"migrating", "ready"}
    /\ proc' = [proc EXCEPT !.pc = "stopped"]
    /\ dbLast' = DbStep("stop", "", NoConfig, TRUE, NoConfig)
    /\ UNCHANGED <<user_version, schema, configs>>
    /\ DbOthers

\* SELECT * FROM configs WHERE guild_id = ?, stmt.get: the first row, or
\* undefined (NoConfig).
Select(rows, guildId) ==
    LET found == {i \in 1..Len(rows) : rows[i].guild_id = guildId}
    IN  IF found = {} THEN NoConfig ELSE <<rows[Min(found)]>>

GetConfig(guildId) ==
    /\ proc.pc = "ready"
    /\ dbLast' = DbStep("getConfig", guildId, NoConfig, TRUE, Select(configs, guildId))
    /\ UNCHANGED <<user_version, schema, configs, proc>>
    /\ DbOthers

\* The columns declared NOT NULL.
NotNull(config) == config.jellyseer_url # Null /\ config.jellyseer_api_key # Null

\* INSERT ... ON CONFLICT(guild_id) DO UPDATE SET <every other column>.
Upsert_insert(rows, config) == Append(rows, config)
Upsert_all(rows, config) ==
    IF \E i \in 1..Len(rows) : rows[i].guild_id = config.guild_id
    THEN [i \in 1..Len(rows) |-> [config EXCEPT !.guild_id = rows[i].guild_id]]
    ELSE Append(rows, config)
Upsert(rows, config) ==
    IF \E i \in 1..Len(rows) : rows[i].guild_id = config.guild_id
    THEN [i \in 1..Len(rows) |->
             IF rows[i].guild_id = config.guild_id THEN config ELSE rows[i]]
    ELSE Append(rows, config)

\* setConfig: stmt.run throws on a NOT NULL column given null, and stores
\* nothing.
RunSetConfig(config) ==
    /\ proc.pc = "ready"
    /\ IF NotNull(config)
       THEN /\ configs' = Upsert(configs, config)
            /\ dbLast' = DbStep("setConfig", config.guild_id, <<config>>, TRUE, NoConfig)
       ELSE /\ UNCHANGED configs
            /\ dbLast' = DbStep("setConfig", config.guild_id, <<config>>, FALSE, NoConfig)
    /\ UNCHANGED <<user_version, schema, proc>>

SetConfig(config) == RunSetConfig(config) /\ DbOthers

DbNext ==
    \/ PrepareStart
    \/ Migrate
    \/ PrepareEnd
    \/ Stop
    \/ \E g \in Guilds : GetConfig(g)
    \/ \E config \in Configs : SetConfig(config)

\* -------------------------------------------------------------------- app.js
\* POST /api/config.  A request: whether its session is authenticated, the
\* guilds of the session's user (none without a session), each with its
\* permissions (the flags set in the bit field), and the body ("": no
\* guild_id; Null: a field that is null or missing).
Permissions == {{"ManageGuild"}, {"Administrator", "ManageGuild"}}
UserGuild == [id : Guilds, permissions : Permissions]
UserGuilds ==
    {<<>>} \cup {<<a>> : a \in UserGuild}
           \cup {<<a, b>> : a \in {u \in UserGuild : u.id = "G1"},
                            b \in {u \in UserGuild : u.id = "G2"}}
PostBodies ==
    [guild_id : Guilds \cup {""},
     jellyseer_url : {Null, "https://a"},
     jellyseer_api_key : {"key"},
     notification_channel_id : {"c1"},
     jellyfin_server_url : {"https://jf"},
     color_search : {"#ef9f76"},
     ephemeral_responses : {Null, "on"},
     color_success : {"#a6d189"},
     color_notification : {"#cba6f7"}]
PostRequests ==
    {r \in [authenticated : BOOLEAN, guilds : UserGuilds, body : PostBodies] :
        ~r.authenticated => r.guilds = <<>>}
NoPost == [authenticated |-> FALSE, guilds |-> <<>>, body |-> <<>>]

\* req.user.guilds.find(g => g.id === guildId), then
\* new PermissionsBitField(BigInt(guild.permissions)).has("Administrator").
IsAdministrator_member(guilds, guildId) ==
    \E i \in 1..Len(guilds) : guilds[i].id = guildId
IsAdministrator(guilds, guildId) ==
    LET found == {i \in 1..Len(guilds) : guilds[i].id = guildId}
    IN  /\ found # {}
        /\ "Administrator" \in guilds[Min(found)].permissions

\* newConfig: the fields of the body, ephemeral_responses as 1 or 0.
NewConfig(body) ==
    [body EXCEPT !.ephemeral_responses = IF @ # Null THEN 1 ELSE 0]

HttpStep(req, status) == [req |-> req, status |-> status]

\* ensureAuthenticated, then the route: 302 to the login page, 400 without
\* guild id, 403 for who is not an administrator of the guild; else setConfig,
\* and 200, or 500 when setConfig throws.
PostConfig(req) ==
    /\ proc.pc = "ready"
    /\ IF ~req.authenticated
       THEN /\ http' = HttpStep(req, 302)
            /\ UNCHANGED dbVars
       ELSE IF req.body.guild_id = ""
       THEN /\ http' = HttpStep(req, 400)
            /\ UNCHANGED dbVars
       ELSE IF ~IsAdministrator(req.guilds, req.body.guild_id)
       THEN /\ http' = HttpStep(req, 403)
            /\ UNCHANGED dbVars
       ELSE /\ RunSetConfig(NewConfig(req.body))
            /\ http' = HttpStep(req, IF NotNull(NewConfig(req.body)) THEN 200 ELSE 500)
    /\ UNCHANGED <<engineVars, call, inter>>

\* The server: prepareDatabase when app.js is loaded, then the route.
ConfigApiNext ==
    \/ proc.pc = "stopped" /\ PrepareStart
    \/ Migrate
    \/ PrepareEnd
    \/ \E req \in PostRequests : PostConfig(req)

\* interactionCreate for a command or a component that leads to
\* handleInteraction.  The payloads handed to interaction.editReply: the embed
\* is known by its author line (the texts are given without their emoji).
Entries == {"search", "request", "button", "seasonselect"}
MediaTypes == {"movie", "tv"}
AuthorName(mediaType, status) ==
    IF status = "success" THEN "Successfully Requested!"
    ELSE IF mediaType = "movie" THEN "Movie Found" ELSE "TV Show Found"
MediaReply(mediaType, isRequest) ==
    [content |-> "",
     embeds |-> <<AuthorName(mediaType, IF isRequest THEN "success" ELSE "search")>>,
     components |-> <<"buttons">>]
ErrorReply ==
    [content |-> "An error occurred. The item might already be requested.",
     embeds |-> <<>>, components |-> <<>>]
Deferred == [content |-> "", embeds |-> <<>>, components |-> <<"deferred">>]
NoReply == [content |-> "", embeds |-> <<>>, components |-> <<>>]

\* An interaction: where its handler is suspended (pc), the arguments of
\* handleInteraction, whether the guild has a configuration, interaction.deferred,
\* what the user sees (shown), and as history the requests made to Jellyseerr,
\* TMDB and OMDb (log), the payloads handed to editReply (edits), the awaits
\* that were rejected (failed) and whether the Jellyseerr request was resolved.
NoInter ==
    [pc |-> "idle", entry |-> "none", mediaType |-> "none", isRequest |-> FALSE,
     configured |-> FALSE, deferred |-> FALSE, shown |-> NoReply,
     log |-> <<>>, edits |-> <<>>, failed |-> {}, requested |-> FALSE]

AppInit == http = HttpStep(NoPost, 0) /\ inter = NoInter

InterOthers == UNCHANGED <<engineVars, call, dbVars, http>>

\* catch of handleInteraction: the reply is edited to the error message when
\* the interaction is deferred or replied.
Catch(c, what) ==
    IF c.deferred
    THEN [c EXCEPT !.pc = "errorEdit", !.failed = @ \cup {what},
                   !.edits = Append(@, ErrorReply)]
    ELSE [c EXCEPT !.pc = "done", !.failed = @ \cup {what}]

ToDetails(c) == [c EXCEPT !.pc = "details", !.log = Append(@, "tmdbDetails")]

\* handleInteraction up to its first await: with isRequest the request to
\* Jellyseerr, whose URL is made from the configuration (a TypeError without
\* one); else the details.
HandleInteraction(c) ==
    IF c.isRequest
    THEN IF c.configured
         THEN [c EXCEPT !.pc = "request", !.log = Append(@, "jellyseerr")]
         ELSE Catch(c, "config")
    ELSE ToDetails(c)

\* The commands answer at once when the guild has no configuration; the
\* components do not look at it.  seasonselect is for tv only.
InteractionCreate(entry, mediaType, configured) ==
    /\ inter.pc = "idle"
    /\ entry \in {"search", "request"} => configured
    /\ entry = "seasonselect" => mediaType = "tv"
    /\ inter' = [NoInter EXCEPT !.pc = "defer", !.entry = entry,
                                !.mediaType = mediaType,
                                !.isRequest = (entry # "search"),
                                !.configured = configured]
    /\ InterOthers

\* deferReply or deferUpdate resolves, and handleInteraction is called; or it
\* rejects, and the outer catch replies.
DeferResolve ==
    /\ inter.pc = "defer"
    /\ inter' = HandleInteraction([inter EXCEPT !.deferred = TRUE, !.shown = Deferred])
    /\ InterOthers

DeferReject ==
    /\ inter.pc = "defer"
    /\ inter' = [inter EXCEPT !.pc = "done", !.failed = @ \cup {"defer"}]
    /\ InterOthers

\* What becomes of the call when the request to Jellyseerr is rejected.
RequestRejected_ignored(c) == ToDetails([c EXCEPT !.failed = @ \cup {"jellyseerr"}])
RequestRejected(c) == Catch(c, "jellyseerr")

RequestResolve ==
    /\ inter.pc = "request"
    /\ inter' = ToDetails([inter EXCEPT !.requested = TRUE])
    /\ InterOthers

RequestReject ==
    /\ inter.pc = "request"
    /\ inter' = RequestRejected(inter)
    /\ InterOthers

DetailsSettle(ok) ==
    /\ inter.pc = "details"
    /\ inter' = IF ok
                THEN [inter EXCEPT !.pc = "external", !.log = Append(@, "tmdbExternal")]
                ELSE Catch(inter, "tmdbDetails")
    /\ InterOthers

\* From fetchOMDbData on: the embed and the buttons are built and handed to
\* editReply.
Reply(c) ==
    [c EXCEPT !.pc = "edit",
              !.edits = Append(@, MediaReply(c.mediaType, c.isRequest))]

\* tmdbGetExternalImdb resolves with an IMDb id or null, or rejects;
\* fetchOMDbData asks OMDb only with an id.
ExternalSettle(ok, hasImdb) ==
    /\ inter.pc = "external"
    /\ inter' = IF ~ok THEN Catch(inter, "tmdbExternal")
                ELSE IF hasImdb
                THEN [inter EXCEPT !.pc = "omdb", !.log = Append(@, "omdb")]
                ELSE Reply(inter)
    /\ InterOthers

\* fetchOMDbData catches a rejection and returns null.
OmdbSettle(ok) ==
    /\ inter.pc = "omdb"
    /\ inter' = Reply(IF ok THEN inter ELSE [inter EXCEPT !.failed = @ \cup {"omdb"}])
    /\ InterOthers

EditSettle(ok) ==
    /\ inter.pc = "edit"
    /\ inter' = IF ok
                THEN [inter EXCEPT !.pc = "done",
                                   !.shown = inter.edits[Len(inter.edits)]]
                ELSE Catch(inter, "edit")
    /\ InterOthers

\* editReply of the error message: when it rejects, handleInteraction throws
\* and the outer catch sends a follow-up.
ErrorEditSettle(ok) ==
    /\ inter.pc = "errorEdit"
    /\ inter' = IF ok
                THEN [inter EXCEPT !.pc = "done", !.shown = ErrorReply]
                ELSE [inter EXCEPT !.pc = "done", !.failed = @ \cup {"errorEdit"}]
    /\ InterOthers

\* The handler is over.
InteractionEnd ==
    /\ inter.pc = "done"
    /\ inter' = NoInter
    /\ InterOthers

InteractionNext ==
    \/ \E entry \in Entries, mediaType \in MediaTypes, configured \in BOOLEAN :
          InteractionCreate(entry, mediaType, configured)
    \/ DeferResolve
    \/ DeferReject
    \/ RequestResolve
    \/ RequestReject
    \/ \E ok \in BOOLEAN : DetailsSettle(ok)
    \/ \E ok \in BOOLEAN, hasImdb \in BOOLEAN : ExternalSettle(ok, hasImdb)
    \/ \E ok \in BOOLEAN : OmdbSettle(ok)
    \/ \E ok \in BOOLEAN : EditSettle(ok)
    \/ \E ok \in BOOLEAN : ErrorEditSettle(ok)
    \/ InteractionEnd

Init == EngineInit /\ ComposeInit /\ DbInit /\ AppInit

\* The steps of the engine take place beside a call under composition and the
\* store, and touch neither.
Elsewhere == UNCHANGED <<call, dbVars, appVars>>

Next ==
    \/ \E r \in Requests : nsub < MaxEvents /\ Webhook(r) /\ Elsewhere
    \/ \E k \in Keys : \E i \in 1..Len(debounceTimers[k]) :
          DebounceFire(k, i) /\ Elsewhere
    \/ \E k \in Keys : \E i \in 1..Len(flushing[k]) : Dispatch(k, i) /\ Elsewhere
    \/ \E k \in Keys : \E i \in 1..Len(flushing[k]) : FlushDone(k, i) /\ Elsewhere
    \/ \E k \in Keys : \E i \in 1..Len(flushing[k]) : FlushFail(k, i) /\ Elsewhere
    \/ \E k \in Keys : CleanupFire(k) /\ Elsewhere
    \/ \E d \in Delays : Advance(d) /\ Elsewhere

Spec == Init /\ [][Next]_vars

\* What the runtime guarantees: a due timer's callback runs, time passes, and
\* a suspended flush resumes (its awaits resolve or reject).
TimerStep ==
    /\ \/ \E k \in Keys : \E i \in 1..Len(debounceTimers[k]) : DebounceFire(k, i)
       \/ \E k \in Keys : CleanupFire(k)
    /\ Elsewhere
FlushStep ==
    /\ \E k \in Keys : \E i \in 1..Len(flushing[k]) :
          Dispatch(k, i) \/ FlushDone(k, i) \/ FlushFail(k, i)
    /\ Elsewhere
TimeStep == (\E d \in Delays : Advance(d)) /\ Elsewhere

FairSpec ==
    Spec /\ WF_vars(TimerStep) /\ WF_vars(FlushStep) /\ WF_vars(TimeStep)

RoutingNext ==
    \/ \E r \in RoutingRequests : nsub < MaxEvents /\ Webhook(r) /\ Elsewhere
    \/ \E k \in Keys : \E i \in 1..Len(debounceTimers[k]) :
          DebounceFire(k, i) /\ Elsewhere
    \/ \E k \in Keys : \E i \in 1..Len(flushing[k]) : Dispatch(k, i) /\ Elsewhere
    \/ \E k \in Keys : \E i \in 1..Len(flushing[k]) : FlushDone(k, i) /\ Elsewhere
    \/ \E k \in Keys : \E i \in 1..Len(flushing[k]) : FlushFail(k, i) /\ Elsewhere
    \/ \E k \in Keys : CleanupFire(k) /\ Elsewhere
    \/ \E d \in Delays : Advance(d) /\ Elsewhere

RoutingSpec == Init /\ [][RoutingNext]_vars

ComposeSpec == Init /\ [][ComposeNext]_vars
DbSpec == Init /\ [][DbNext]_vars
ConfigApiSpec == Init /\ [][ConfigApiNext]_vars
InteractionSpec == Init /\ [][InteractionNext]_vars

\* ====================================================================== claims
MaxLevel(events) == Max({getItemLevel(events[i].ItemType) : i \in 1..Len(events)})
Types(events) == [i \in 1..Len(events) |-> events[i].ItemType]
Has(m, k) == k \in DOMAIN m
Flights(k) == {flushing[k][i] : i \in 1..Len(flushing[k])}
Debounced == last.op = "webhook" /\ last.res.body = "debounced"

\* C1: Debounce coalescing.  The events taken into the entry of a SeriesId
\* before its debounce timer fires lead to one flush: the entry has one timer
\* armed and no callback started, or no timer armed and one callback started;
\* and the event that callback hands to processAndSendNotification has the
\* highest level among the events taken in before the timer fired.
C1_Coalescing ==
    \A k \in Keys :
        /\ Has(debouncedSenders, k) => Len(debounceTimers[k]) + nfired[k] = 1
        /\ \A f \in Flights(k) :
              f.inMap =>
                 getItemLevel(f.data.ItemType) = MaxLevel(SubSeq(batch[k], 1, f.n))

\* [Episode, Episode, Season] for a SeriesId with no suppression record: the
\* callback of its one timer is suspended with the Season event.
C1_Witness ==
    \E k \in Keys :
        /\ ~Has(sentNotifications, k)
        /\ nfired[k] = 1
        /\ \E f \in Flights(k) :
              /\ f.n = 3
              /\ Types(batch[k]) = <<"Episode", "Episode", "Season">>
              /\ f.data = batch[k][3]

\* C2: Non-sliding window.  While the entry of a SeriesId waits for its flush,
\* exactly one debounce timer is armed for it and it is due 30 seconds after
\* the entry was created, whatever was submitted since; once it has fired (30
\* seconds after the creation) none is armed; no timer is armed for a SeriesId
\* without entry.
C2_NonSliding ==
    \A k \in Keys :
        IF Has(debouncedSenders, k)
        THEN IF nfired[k] = 0
             THEN debounceTimers[k] = <<DebounceMs - pendingAge[k]>>
             ELSE debounceTimers[k] = <<>> /\ pendingAge[k] = DebounceMs
        ELSE debounceTimers[k] = <<>>

\* A second event was just taken in 20 seconds after the first: the timer
\* still has 10 seconds to run.
C2_Witness ==
    /\ Debounced
    /\ last.data.seq = 2
    /\ pendingAge[last.key] = 20000
    /\ debounceTimers[last.key] = <<10000>>

\* C3: Suppression monotonicity.  Whenever a flush hands an event of a SeriesId
\* to channel.send, the SeriesId has no suppression record or one of a level
\* below the level of that event.
C3_NoDispatchAtOrBelowRecord ==
    last.op = "dispatch" =>
        SentLevel(sentNotifications, last.key) < getItemLevel(last.sink.ItemType)

\* A flush dispatches while a record of its SeriesId exists.
C3_Witness ==
    /\ last.op = "dispatch"
    /\ Has(sentNotifications, last.key)
    /\ sentNotifications[last.key].level = 2
    /\ last.sink.ItemType = "Series"

\* C4 (as claimed): after a flush completed successfully, the suppression
\* record of its SeriesId holds the level of the event that was dispatched.
C4_RecordHoldsDispatchedLevel ==
    last.op = "flushDone" =>
        sentNotifications[last.key].level = getItemLevel(last.data.ItemType)

\* C5 (as claimed): an event accepted for a SeriesId while a flush of that
\* SeriesId is suspended starts a new entry with its own 30-second timer.
C5_NewAggregationDuringFlush ==
    (Debounced /\ flushing[last.key] # <<>>) =>
        /\ last.data.seq = 1
        /\ debounceTimers[last.key] = <<DebounceMs>>

\* C6 (as claimed): a suppression record is removed only 24 hours after it was
\* last set, that is, when the cleanup timer armed with it is due.
C6_ExpiryResetOnRefresh ==
    [][\A k \in Keys :
          (Has(sentNotifications, k) /\ ~Has(sentNotifications', k)) =>
              sentNotifications[k].cleanupTimer = 0]_vars

\* C7 (as claimed): whenever an event was accepted as debounced, a flush of
\* its SeriesId is scheduled or under way; and a failed flush has removed the
\* entry of its SeriesId.
C7_RecoveryAfterFailure ==
    /\ Debounced =>
          debounceTimers[last.key] # <<>> \/ flushing[last.key] # <<>>
    /\ last.op = "flushFail" => ~Has(debouncedSenders, last.key)

\* C8: a suppression record is created or set, and a cleanup timer armed, only
\* by the step in which a flush of that SeriesId completes after channel.send
\* resolved; a failed flush leaves all records and all cleanup timers as they
\* were.
RecordSet(k) ==
    /\ Has(sentNotifications', k)
    /\ \/ ~Has(sentNotifications, k)
       \/ sentNotifications'[k].level # sentNotifications[k].level
       \/ sentNotifications'[k].cleanupTimer > sentNotifications[k].cleanupTimer
CleanupArmed(k) == Cardinality(cleanupTimers'[k]) > Cardinality(cleanupTimers[k])

C8_RecordOnlyOnSuccess ==
    [][/\ \A k \in Keys :
             (RecordSet(k) \/ CleanupArmed(k)) =>
                 last'.op = "flushDone" /\ last'.key = k
       /\ last'.op = "flushFail" => UNCHANGED <<sentNotifications, cleanupTimers>>]_vars

\* A flush failed for a SeriesId that has a record from an earlier flush.
C8_Witness ==
    /\ last.op = "flushFail"
    /\ Has(sentNotifications, last.key)
    /\ sentNotifications[last.key].level < getItemLevel(last.data.ItemType)

\* C9: a Series, Season or Episode event whose SeriesId has a suppression
\* record of its level or above is answered 200 and changes nothing: no entry,
\* no timer, no record, no flush, and nothing is handed to channel.send.
C9_SuppressedIsNoOp ==
    [][(/\ last'.op = "webhook"
        /\ IsAggregated(last'.data.ItemType)
        /\ Has(sentNotifications, last'.data.SeriesId)
        /\ sentNotifications[last'.data.SeriesId].level
              >= getItemLevel(last'.data.ItemType))
       => /\ UNCHANGED <<debouncedSenders, sentNotifications, debounceTimers,
                         cleanupTimers, flushing>>
          /\ last'.sink = NoEvent
          /\ last'.res = Response(200, "skipped")]_vars

\* An Episode event arrived after a Season notification and was skipped.
C9_Witness ==
    /\ last.op = "webhook"
    /\ last.res.body = "skipped"
    /\ last.data.ItemType = "Episode"
    /\ Has(sentNotifications, last.key)
    /\ sentNotifications[last.key].level = 2

\* C10: Independent keys.  A step for one SeriesId (a webhook call, a timer
\* callback, the end of a flush) leaves the entry, the record, the timers and
\* the flushes of every other SeriesId as they were; and an event is skipped
\* exactly when the record of its own SeriesId has its level or above.
Opt(m, k) == IF Has(m, k) THEN <<m[k]>> ELSE <<>>
KeyState(k) ==
    <<Opt(debouncedSenders, k), Opt(sentNotifications, k), debounceTimers[k],
      cleanupTimers[k], flushing[k]>>

C10_IndependentKeys ==
    [][/\ last'.op # "advance" =>
             \A k \in Keys : k # last'.key => KeyState(k)' = KeyState(k)
       /\ (last'.op = "webhook" /\ IsAggregated(last'.data.ItemType)) =>
             (last'.res.body = "skipped" <=>
                 /\ Has(sentNotifications, last'.data.SeriesId)
                 /\ sentNotifications[last'.data.SeriesId].level
                       >= getItemLevel(last'.data.ItemType))]_vars

\* A flush of one SeriesId completed while another SeriesId has a record and
\* an entry waiting for its flush.
C10_Witness ==
    /\ last.op = "flushDone"
    /\ \E k \in Keys :
          /\ k # last.key
          /\ Has(debouncedSenders, k)
          /\ Has(sentNotifications, k)

\* The engine's own state: the two maps, the timers and the suspended flushes.
EngineSame ==
    UNCHANGED <<debouncedSenders, sentNotifications, debounceTimers,
                cleanupTimers, flushing>>
Passed(step) == step.op = "webhook" /\ step.req = PassedReq

\* C11: Bypass.  An ItemAdded event of a configured guild that is a Movie or
\* has no SeriesId is given to processAndSendNotification within its webhook
\* call (it is neither skipped nor debounced, and when the call succeeds the
\* event itself was handed to channel.send), whatever records and entries
\* exist, and the call changes no entry, timer, record or flush.
C11_Bypass ==
    [][(/\ Passed(last')
        /\ last'.data.ItemType = "Movie" \/ last'.data.SeriesId = NoKey)
       => /\ EngineSame
          /\ last'.res.body \notin {"skipped", "debounced"}
          /\ last'.sink \in {last'.data, NoEvent}
          /\ last'.res.status = 200 => last'.sink = last'.data]_vars

\* A Movie carrying the SeriesId of a series that has a record was sent while
\* an entry was waiting for its flush.
C11_Witness ==
    /\ Passed(last)
    /\ last.data.ItemType = "Movie"
    /\ Has(sentNotifications, last.data.SeriesId)
    /\ \E k \in Keys : Has(debouncedSenders, k)
    /\ last.res = Response(200, "Movie sent")
    /\ last.sink = last.data

\* C12 (as claimed): every well-formed ItemAdded event of a configured guild
\* is answered with a success status, whatever became of the dispatch.
C12_AlwaysAcknowledged ==
    Passed(last) => last.res.status = 200

\* C13 (as claimed): every event whose NotificationType is not ItemAdded is
\* answered 200 and ignored, also when it has no ItemId.
C13_OtherTypesIgnored ==
    (last.op = "webhook" /\ last.req.ntype = "PlaybackStart") =>
        /\ last.res = Response(200, "ignored")
        /\ last.sink = NoEvent

\* C14: an ItemAdded event (with ItemId) of a guild whose configuration is
\* absent or lacks the channel or the server URL is answered 404; nothing is
\* dispatched and no entry, timer, record or flush changes.
C14_IncompleteConfigRejected ==
    [][(/\ last'.op = "webhook"
        /\ last'.req.hasItemId
        /\ last'.req.ntype = "ItemAdded"
        /\ last'.req.cfg \in {"absent", "nochannel", "nourl"})
       => /\ last'.res = Response(404, "incomplete")
          /\ last'.data = NoEvent
          /\ last'.sink = NoEvent
          /\ EngineSame]_vars

\* An event of a guild without server URL was rejected while an entry and a
\* record exist.
C14_Witness ==
    /\ last.op = "webhook"
    /\ last.req = [hasItemId |-> TRUE, ntype |-> "ItemAdded", cfg |-> "nourl"]
    /\ last.res.status = 404
    /\ \E k \in Keys : Has(debouncedSenders, k)
    /\ \E k \in Keys : Has(sentNotifications, k)

\* C15: a request without ItemId (or without body) is answered 400; its item
\* is not looked at, nothing is dispatched and no entry, timer, record or flush
\* changes.
C15_MissingItemIdRejected ==
    [][(last'.op = "webhook" /\ ~last'.req.hasItemId)
       => /\ last'.res = Response(400, "No valid data")
          /\ last'.data = NoEvent
          /\ last'.sink = NoEvent
          /\ EngineSame]_vars

\* An ItemAdded request without ItemId was rejected while an entry and a record
\* exist.
C15_Witness ==
    /\ last.op = "webhook"
    /\ last.req = [hasItemId |-> FALSE, ntype |-> "ItemAdded", cfg |-> "ok"]
    /\ last.res.status = 400
    /\ \E k \in Keys : Has(debouncedSenders, k)
    /\ \E k \in Keys : Has(sentNotifications, k)

\* C16: while the suppression record of a SeriesId lives, no step lowers its
\* level.
C16_RecordLevelMonotone ==
    [][\A k \in Keys :
          (Has(sentNotifications, k) /\ Has(sentNotifications', k)) =>
              sentNotifications'[k].level >= sentNotifications[k].level]_vars

\* A flush just raised a living record to level 3: the cleanup timer of the
\* record it replaced is still armed beside the new one.
C16_Witness ==
    /\ last.op = "flushDone"
    /\ sentNotifications[last.key].level = 3
    /\ Cardinality(cleanupTimers[last.key]) = 2

\* C17: Replacement rule.  The event an entry holds is, of the events taken
\* into it, the last one of the highest level: an incoming event replaces the
\* held one exactly when its level is at least the held level.
LastOfMax(events) ==
    LET pos == Max({i \in 1..Len(events) :
                       getItemLevel(events[i].ItemType) = MaxLevel(events)})
    IN  events[pos]

C17_ReplacementRule ==
    \A k \in Keys :
        Has(debouncedSenders, k) =>
            debouncedSenders[k].latestData = LastOfMax(batch[k])

\* [Season, Season, Episode]: the entry holds the second Season event.
C17_Witness ==
    \E k \in Keys :
        /\ Has(debouncedSenders, k)
        /\ Types(batch[k]) = <<"Season", "Season", "Episode">>
        /\ debouncedSenders[k].latestData = batch[k][2]

\* C18: a SeriesId never has more than one debounce timer armed; a webhook
\* call leaves an armed timer as it is; and a timer goes away only when its
\* callback runs.
C18_OneTimerNeverCancelled ==
    [][\A k \in Keys :
          /\ Len(debounceTimers'[k]) <= 1
          /\ (last'.op = "webhook" /\ debounceTimers[k] # <<>>) =>
                debounceTimers'[k] = debounceTimers[k]
          /\ Len(debounceTimers'[k]) < Len(debounceTimers[k]) =>
                last'.op = "fire" /\ last'.key = k]_vars

\* A third event was taken into an entry whose timer, armed by the first, has
\* 10 seconds left.
C18_Witness ==
    /\ Debounced
    /\ last.data.seq = 3
    /\ debounceTimers[last.key] = <<10000>>
    /\ debouncedSenders[last.key].timer = 10000

\* C19: every suppression record is destroyed.  A record always has the
\* cleanup timer armed that was set with it, due 24 hours after the flush
\* that set it, and every record that exists is removed at some later time.
C19_RecordEventuallyDestroyed ==
    /\ [](\A k \in Keys :
             Has(sentNotifications, k) =>
                /\ sentNotifications[k].cleanupTimer \in cleanupTimers[k]
                /\ sentNotifications[k].cleanupTimer <= CleanupMs)
    /\ \A k \in Keys :
          Has(sentNotifications, k) ~> ~Has(sentNotifications, k)

\* The cleanup timer of a record ran 24 hours after the one flush of its
\* SeriesId and removed it.
C19_Witness ==
    /\ last.op = "cleanup"
    /\ ~Has(sentNotifications, last.key)
    /\ cleanupTimers[last.key] = {}
    /\ batch[last.key] # <<>>

\* C20: At-most-once delivery.  The events of one entry are handed to
\* channel.send at most once; after a failed flush no timer is armed and no
\* flush is under way for its SeriesId (nothing is retried or requeued); and
\* a webhook call hands at most its own event to channel.send, once.
C20_AtMostOnce ==
    /\ \A k \in Keys : nsent[k] <= 1
    /\ last.op = "flushFail" =>
          debounceTimers[last.key] = <<>> /\ flushing[last.key] = <<>>
    /\ (last.op = "webhook" /\ last.sink # NoEvent) =>
          last.sink = last.data /\ last.key = NoKey

\* A flush failed after it had handed its event to channel.send.
C20_Witness ==
    /\ last.op = "flushFail"
    /\ nsent[last.key] = 1
    /\ Has(debouncedSenders, last.key)

\* ------------------------------------------------------ claims on the composer
\* The embed is built: the call has passed both lookups.
IsBuilt == call.payload # NoPayload
\* minutesToHhMm of the runtimes TMDB gives in the model, written out.
HhMm == [r \in {45, 95} |->
            IF r = 45 THEN <<"4", "5", "m">> ELSE <<"1", "h", " ", "3", "5", "m">>]
Min95 == <<"9", "5", " ", "m", "i", "n">>
Min1 == <<"1", " ", "m", "i", "n">>

\* C21 (as claimed): when the OMDb lookup of a call failed, the embed of the
\* call has runtime "N/A" and rating "N/A", whatever the item type and the
\* TMDB data.
C21_SecondaryFailureGivesNA ==
    "omdb" \in call.rejected =>
        /\ IsBuilt
        /\ call.payload.runtime = NA
        /\ call.payload.rating = NA

\* C21 (amended): when the OMDb lookup of a call failed, the call does not
\* throw for it and builds its embed; the rating is "N/A"; the runtime is
\* "N/A" unless the item is a Movie and TMDB gave a positive runtime, which is
\* then shown in hours and minutes.
C21_SecondaryFailureDegrades ==
    "omdb" \in call.rejected =>
        /\ IsBuilt
        /\ call.pc \in {"fetch", "send", "sent", "thrown"}
        /\ call.payload.rating = NA
        /\ call.payload.runtime =
              IF call.data.ItemType = "Movie" /\ call.details.ok
                    /\ call.details.runtime > 0
              THEN HhMm[call.details.runtime]
              ELSE NA

\* A Movie whose OMDb lookup failed was sent with the runtime of TMDB.
C21_Witness ==
    /\ "omdb" \in call.rejected
    /\ call.pc = "sent"
    /\ call.data.ItemType = "Movie"
    /\ call.payload.runtime = <<"1", "h", " ", "3", "5", "m">>
    /\ call.payload.rating = NA

\* C22: Fail-soft composition.  A rejected TMDB or OMDb lookup (or both)
\* never makes the call throw: the step that takes the rejection goes on to
\* the next lookup or to channels.fetch, the embed is built, and the fields
\* of the failed provider are degraded (no TMDB data: "No description
\* available."; no OMDb data: rating "N/A").
C22_FailSoft ==
    /\ [](call.rejected # {} =>
             /\ call.pc \in {"omdb", "fetch", "send", "sent", "thrown"}
             /\ call.pc = "thrown" => IsBuilt
             /\ (IsBuilt /\ "tmdb" \in call.rejected) =>
                   call.payload.overview = "No description available."
             /\ (IsBuilt /\ "omdb" \in call.rejected) => call.payload.rating = NA)
    /\ [][call'.rejected \ call.rejected # {} =>
             /\ call'.pc \in {"omdb", "fetch"}
             /\ call'.pc = "fetch" => call'.payload # NoPayload]_vars

\* Both lookups of a call failed and its embed was sent.
C22_Witness ==
    /\ call.rejected = {"tmdb", "omdb"}
    /\ call.pc = "sent"
    /\ call.payload.runtime = NA
    /\ call.payload.rating = NA
    /\ call.payload.overview = "No description available."

\* The runtime OMDb supplies, in minutes, and whether it supplies one.
SecondaryHasRuntime ==
    call.omdb.ok /\ call.omdb.Runtime \notin {<<>>, NA, <<"m", "i", "n">>}
SecondaryRuntime ==
    IF call.omdb.Runtime = Min95 THEN Min95 ELSE Min1

\* C23 (as claimed): for every item type the runtime is that of OMDb when it
\* supplies one, else that of TMDB when it supplies one, else "N/A".
C23_UniformRuntime ==
    IsBuilt =>
        call.payload.runtime =
            IF SecondaryHasRuntime THEN SecondaryRuntime
            ELSE IF call.details.ok /\ call.details.runtime > 0
            THEN HhMm[call.details.runtime]
            ELSE NA

\* C23 (amended): when OMDb gives a Runtime that is not "N/A", the runtime is
\* its first integer with " min" ("N/A" when it holds no digit); otherwise,
\* for a Movie only, the runtime of TMDB when positive, in hours and minutes;
\* "N/A" in every other case.
C23_RuntimeMovieFallback ==
    IsBuilt =>
        call.payload.runtime =
            IF call.omdb.ok /\ call.omdb.Runtime \notin {<<>>, NA}
            THEN IF call.omdb.Runtime = <<"m", "i", "n">> THEN NA ELSE SecondaryRuntime
            ELSE IF call.data.ItemType = "Movie" /\ call.details.ok
                       /\ call.details.runtime > 0
            THEN HhMm[call.details.runtime]
            ELSE NA

\* A Series for which TMDB gave a runtime and OMDb none was sent with "N/A".
C23_Witness ==
    /\ call.pc = "sent"
    /\ call.data.ItemType = "Series"
    /\ call.details.ok /\ call.details.runtime = 45
    /\ call.omdb.ok /\ call.omdb.Runtime = <<>>
    /\ call.payload.runtime = NA

\* C30: External identifier resolution.  A call asks OMDb at most once, and
\* for the imdb_id of TMDB's external_ids when its TMDB lookup succeeded and
\* gave one, otherwise for the Provider_imdb of the event; with neither, OMDb
\* is not asked.  TMDB is asked only for the Provider_tmdb of the event.
AskedFor(api) == {call.asked[j].id : j \in {i \in 1..Len(call.asked) : call.asked[i].api = api}}

C30_ExternalIdResolution ==
    /\ Len(call.asked) <= 2
    /\ AskedFor("tmdb") \subseteq {call.data.Provider_tmdb} \ {""}
    /\ AskedFor("omdb") \subseteq
          {IF call.details.ok /\ call.details.imdb_id # ""
           THEN call.details.imdb_id
           ELSE call.data.Provider_imdb} \ {""}
    /\ (call.pc = "omdb" \/ call.omdb.ok \/ "omdb" \in call.rejected)
          => AskedFor("omdb") # {}

\* The event carries an IMDb id, TMDB gave another, and OMDb was asked for
\* TMDB's.
C30_Witness ==
    /\ call.data.Provider_imdb = "ttW"
    /\ call.details.imdb_id = "ttT"
    /\ AskedFor("omdb") = {"ttT"}
    /\ call.omdb.ok

\* --------------------------------------------------------- claims on the store
RowsOf(rows, g) == {i \in 1..Len(rows) : rows[i].guild_id = g}
FullSchema ==
    [t \in {"configs", "sessions"} |->
        IF t = "configs"
        THEN {"guild_id", "jellyseer_url", "jellyseer_api_key",
              "notification_channel_id", "jellyfin_server_url", "color_search",
              "ephemeral_responses", "color_success", "color_notification"}
        ELSE {"sid", "sess", "expire"}]

\* C24 (as claimed): after a call of setConfig, getConfig of its guild returns
\* the fields that call was given.
C24_MostRecentSetConfig ==
    dbLast.op = "setConfig" => Select(configs, dbLast.guild) = dbLast.config

\* C24 (amended): the table holds at most one row per guild; a setConfig that
\* is accepted makes getConfig of its guild return exactly its fields, adding
\* a row only when the guild had none; a setConfig with null jellyseer_url or
\* jellyseer_api_key throws and leaves the table as it was; getConfig returns
\* the row of the guild (none: undefined) and nothing else changes the table.
C24_UpsertRoundTrip ==
    /\ [](\A g \in Guilds : Cardinality(RowsOf(configs, g)) <= 1)
    /\ [](dbLast.op = "getConfig" =>
             /\ dbLast.result = NoConfig <=> RowsOf(configs, dbLast.guild) = {}
             /\ dbLast.result # NoConfig => dbLast.result[1].guild_id = dbLast.guild)
    /\ [][/\ (dbLast'.op = "setConfig" /\ dbLast'.ok) =>
                /\ Select(configs', dbLast'.guild) = dbLast'.config
                /\ Len(configs') =
                      Len(configs) + IF RowsOf(configs, dbLast'.guild) = {} THEN 1 ELSE 0
          /\ (dbLast'.op = "setConfig" /\ ~dbLast'.ok) =>
                /\ configs' = configs
                /\ dbLast'.config[1].jellyseer_url = Null
          /\ dbLast'.op # "setConfig" => configs' = configs]_vars

\* A second setConfig for a guild replaced the notification colour and the
\* channel of its row, beside the row of another guild.
C24_Witness ==
    /\ dbLast.op = "setConfig" /\ dbLast.ok
    /\ Len(configs) = 2
    /\ configs[1].guild_id = dbLast.guild
    /\ configs[1].color_notification = "#112233"
    /\ configs[1].notification_channel_id = Null
    /\ configs[1].jellyseer_url = "https://b"

\* C25: prepareDatabase converges and is idempotent.  It never fails; when it
\* returns, user_version is the number of migrations and the schema is the
\* full one, from whatever version it started; a run that starts at that
\* version applies nothing; and once the version is the number of migrations
\* no step changes the version or the schema.
C25_PrepareIdempotent ==
    /\ [](/\ proc.pc # "exited"
          /\ proc.start \in 0..Len(MIGRATIONS)
          /\ proc.pc = "ready" =>
                user_version = Len(MIGRATIONS) /\ schema = FullSchema
          /\ proc.start = Len(MIGRATIONS) => proc.applied = <<>>)
    /\ [][user_version = Len(MIGRATIONS) => UNCHANGED <<user_version, schema>>]_vars

\* prepareDatabase returned a second time on a database that holds a row.
C25_Witness ==
    /\ dbLast.op = "prepared"
    /\ proc.start = Len(MIGRATIONS)
    /\ proc.pc = "ready"
    /\ configs # <<>>

\* C26: Guild isolation.  A setConfig for one guild leaves what getConfig
\* returns for every other guild as it was.
C26_GuildIsolation ==
    [][dbLast'.op = "setConfig" =>
          \A g \in Guilds \ {dbLast'.guild} :
              Select(configs', g) = Select(configs, g)]_vars

\* A setConfig replaced the row of a guild whose fields differ from those of
\* the other guild's row, which comes after it in the table.
C26_Witness ==
    /\ dbLast.op = "setConfig" /\ dbLast.ok
    /\ Len(configs) = 2
    /\ configs[1].guild_id = dbLast.guild
    /\ configs[1].jellyseer_url = "https://a"
    /\ configs[2].jellyseer_url = "https://b"
    /\ configs[2].color_notification # configs[1].color_notification

\* C28: Incremental migrations.  A run of prepareDatabase that started at
\* version v has applied the migrations v, v+1, ... in that order, each once
\* and none below v, all of them up to the last when it returns; it never
\* fails; and the version changes only with a migration being applied, from
\* that migration's index to the index plus one.
C28_IncrementalMigrations ==
    /\ [](/\ proc.applied = [j \in 1..Len(proc.applied) |-> proc.start + j - 1]
          /\ proc.pc # "exited"
          /\ proc.pc = "migrating" =>
                /\ proc.i = proc.start + Len(proc.applied)
                /\ user_version = proc.i
          /\ proc.pc = "ready" =>
                proc.start + Len(proc.applied) = Len(MIGRATIONS))
    /\ [][(user_version' # user_version \/ proc'.applied # proc.applied
              \/ schema' # schema) =>
             \/ dbLast'.op = "prepareDatabase" /\ UNCHANGED <<user_version, schema>>
             \/ /\ dbLast'.op = "migrate"
                /\ user_version' = user_version + 1
                /\ proc'.applied = Append(proc.applied, user_version)
                /\ schema' = Exec(MIGRATIONS[user_version + 1], schema).schema]_vars

\* A run that started at version 2 returned after the migrations 2, 3, 4, 5.
C28_Witness ==
    /\ proc.pc = "ready"
    /\ proc.start = 2
    /\ proc.applied = <<2, 3, 4, 5>>
    /\ user_version = 6

\* ------------------------------------------------ further claims on the engine
\* The outcome of handing one event of the aggregated path to a key, given the
\* record level and the held event (NoEvent: no entry) it finds.
SubmitHeld(recordLevel, held, event) ==
    IF getItemLevel(event.ItemType) <= recordLevel THEN held
    ELSE IF held = NoEvent THEN event
    ELSE IF getItemLevel(event.ItemType) >= getItemLevel(held.ItemType) THEN event
    ELSE held
Held(ds, k) == IF Has(ds, k) THEN ds[k].latestData ELSE NoEvent

\* C27: Submit is atomic.  A webhook call on the aggregated path reads the
\* record, creates the entry with its timer and updates the held event in one
\* step: the entry after the call is the one that handing the event to the
\* state before the call gives, a timer is armed exactly when the entry is
\* new, and no record, cleanup timer or flush changes; so two calls for one
\* SeriesId with nothing between them leave what handing over the first and
\* then the second event leaves.
C27_SubmitAtomic ==
    [][(/\ Passed(last')
        /\ IsAggregated(last'.data.ItemType)
        /\ last'.data.SeriesId # NoKey)
       => LET k == last'.data.SeriesId
              rec == IF Has(sentNotifications, k) THEN sentNotifications[k].level ELSE 0
          IN  /\ Held(debouncedSenders', k) =
                    SubmitHeld(rec, Held(debouncedSenders, k), last'.data)
              /\ debounceTimers'[k] =
                    IF getItemLevel(last'.data.ItemType) > rec /\ ~Has(debouncedSenders, k)
                    THEN Append(debounceTimers[k], DebounceMs)
                    ELSE debounceTimers[k]
              /\ UNCHANGED <<sentNotifications, cleanupTimers, flushing>>
              /\ \A j \in Keys \ {k} : KeyState(j)' = KeyState(j)]_vars

\* A Season and then an Episode arrived for one SeriesId with no time between
\* them: the entry holds the Season and its timer has its full 30 seconds.
C27_Witness ==
    /\ Debounced
    /\ last.data.seq = 2
    /\ last.data.ItemType = "Episode"
    /\ pendingAge[last.key] = 0
    /\ debouncedSenders[last.key].latestData.ItemType = "Season"
    /\ debounceTimers[last.key] = <<DebounceMs>>

\* C29: Classification.  Series, Season and Episode have the levels 3, 2 and
\* 1 and every other item type level 0; a record holds one of the levels 1 to
\* 3; and an event of a type other than Series, Season and Episode is given
\* to processAndSendNotification within its webhook call, also when it has a
\* SeriesId and that SeriesId has a record or an entry: the call is neither
\* skipped nor debounced and changes no entry, timer, record or flush.
C29_Classification ==
    /\ [](/\ \A t \in ItemTypes :
                getItemLevel(t) =
                   IF t = "Series" THEN 3 ELSE IF t = "Season" THEN 2
                   ELSE IF t = "Episode" THEN 1 ELSE 0
          /\ \A k \in Keys :
                Has(sentNotifications, k) => sentNotifications[k].level \in 1..3)
    /\ [][(/\ Passed(last')
           /\ last'.data.ItemType \notin {"Series", "Season", "Episode"})
          => /\ EngineSame
             /\ last'.key = NoKey
             /\ last'.res.body \notin {"skipped", "debounced"}
             /\ last'.sink \in {last'.data, NoEvent}
             /\ last'.res.status = 200 => last'.sink = last'.data]_vars

\* An Audio item carrying the SeriesId of a series that has a record and an
\* entry was sent by its webhook call.
C29_Witness ==
    /\ Passed(last)
    /\ last.data.ItemType = "Audio"
    /\ last.data.SeriesId \in Keys
    /\ Has(sentNotifications, last.data.SeriesId)
    /\ Has(debouncedSenders, last.data.SeriesId)
    /\ last.sink = last.data
    /\ last.res = Response(200, "sent")

\* C33 (as claimed): a flush delivers the event it carries to the channel of
\* the guild whose webhook call brought that event.
C33_TenantRouting ==
    \A k \in Keys : \A f \in Flights(k) : f.config = f.data.guild

\* C34 (as claimed): when a flush of a SeriesId has completed, every event
\* that was taken into the entry it removes is the event it dispatched or has
\* at most the level of that event.
C34_NoSilentLoss ==
    last.op = "flushDone" =>
        \A j \in 1..Len(batch[last.key]) :
            getItemLevel(batch[last.key][j].ItemType)
                <= getItemLevel(last.data.ItemType)

\* C35: Suppression is time-bounded.  The callback of a cleanup timer removes
\* the record of its SeriesId; a Series, Season or Episode event for a
\* SeriesId that has neither record nor entry is accepted whatever its level
\* and creates an entry that holds it, with a timer of 30 seconds; and the
\* callback of that timer runs 30 seconds after the creation and starts the
\* flush with the event the entry holds.
C35_AcceptedAfterExpiry ==
    /\ [][last'.op = "cleanup" => ~Has(sentNotifications', last'.key)]_vars
    /\ [][(/\ Passed(last')
           /\ IsAggregated(last'.data.ItemType)
           /\ last'.data.SeriesId # NoKey
           /\ ~Has(sentNotifications, last'.data.SeriesId)
           /\ ~Has(debouncedSenders, last'.data.SeriesId))
          => LET k == last'.data.SeriesId
             IN  /\ last'.res = Response(200, "debounced")
                 /\ last'.data.seq = 1
                 /\ Has(debouncedSenders', k)
                 /\ debouncedSenders'[k].latestData = last'.data
                 /\ debounceTimers'[k] = <<DebounceMs>>]_vars
    /\ [][(last'.op = "fire" /\ Has(debouncedSenders, last'.key))
          => LET k == last'.key
             IN  /\ pendingAge[k] = DebounceMs
                 /\ last'.data = debouncedSenders[k].latestData
                 /\ Len(flushing'[k]) = Len(flushing[k]) + 1
                 /\ flushing'[k][Len(flushing'[k])].data = last'.data]_vars

\* An Episode was accepted for a SeriesId whose record (of a Season) had been
\* removed by a cleanup timer; another cleanup timer of the SeriesId is still
\* armed.
C35_Witness ==
    /\ Debounced
    /\ last.data.seq = 1
    /\ last.data.ItemType = "Episode"
    /\ ~Has(sentNotifications, last.key)
    /\ cleanupTimers[last.key] # {}
    /\ debounceTimers[last.key] = <<DebounceMs>>

\* C36: the event a flush dispatches is the one the entry held when the
\* debounce timer fired (the last of the highest level among the events taken
\* in until then); channel.send gets that event; and a webhook call changes
\* the event of no flush in progress.
C36_PayloadFixedAtFire ==
    /\ [](\A k \in Keys : \A f \in Flights(k) :
             f.inMap => f.data = LastOfMax(SubSeq(batch[k], 1, f.n)))
    /\ [][last'.op = "dispatch" =>
             \E i \in 1..Len(flushing[last'.key]) :
                 /\ flushing[last'.key][i].pc = "compose"
                 /\ flushing'[last'.key][i].pc = "send"
                 /\ last'.sink = flushing[last'.key][i].data]_vars
    /\ [][last'.op = "webhook" => flushing' = flushing]_vars

\* A flush dispatched the Episode it took when the timer fired, while the
\* entry holds a Season that arrived after that.
C36_Witness ==
    /\ last.op = "dispatch"
    /\ last.sink.ItemType = "Episode"
    /\ Has(debouncedSenders, last.key)
    /\ debouncedSenders[last.key].latestData.ItemType = "Season"
    /\ debouncedSenders[last.key].latestData.seq > last.sink.seq

\* Whether the lookups of the call made a director, or a Creator or Executive
\* Producer credit, known.
DirectorKnown == call.omdb.ok /\ call.omdb.Director \notin {"", "N/A"}
CreatorCredits ==
    IF call.details.ok
    THEN {i \in 1..Len(call.details.crew) :
             call.details.crew[i].job \in {"Creator", "Executive Producer"}}
    ELSE {}

\* C31: the header of a built embed is "Directed by X" exactly when the item
\* is a Movie and OMDb names a director X; "Created by X" exactly when the item
\* is a Series, Season or Episode and TMDB's crew has a Creator or Executive
\* Producer credit, X being the first of them; and "Summary" in every other
\* case, any other item type included.
C31_HeaderLine ==
    IsBuilt =>
        LET t == call.data.ItemType
            h == call.payload.header
        IN  /\ h[1] = "Directed by " <=> (t = "Movie" /\ DirectorKnown)
            /\ h[1] = "Directed by " => h = <<"Directed by ", call.omdb.Director>>
            /\ h[1] = "Created by " <=>
                   (t \in {"Series", "Season", "Episode"} /\ CreatorCredits # {})
            /\ h[1] = "Created by " =>
                   \E i \in CreatorCredits :
                       /\ h = <<"Created by ", call.details.crew[i].name>>
                       /\ \A j \in CreatorCredits : i <= j
            /\ h[1] \notin {"Directed by ", "Created by "} => h = <<"Summary">>

\* The embed of an Episode was sent with the header "Created by E", E being the
\* Executive Producer listed before the Creator, although OMDb named a director.
C31_Witness ==
    /\ call.pc = "sent"
    /\ call.data.ItemType = "Episode"
    /\ DirectorKnown
    /\ call.payload.header = <<"Created by ", "E">>

\* The text of the event's own Genres: the names joined when it is an array,
\* the string itself otherwise.
EventGenreText ==
    IF call.data.Genres = [isArray |-> TRUE, v |-> <<"Action", "Drama">>]
    THEN <<"Action", ", ", "Drama">>
    ELSE call.data.Genres.v

\* C32: the genre field of a built embed is TMDB's genre list when TMDB
\* answered with a non-empty one, else the text of the event's own Genres when
\* that is not empty, else "N/A"; it is never empty.
C32_GenreSelection ==
    IsBuilt =>
        /\ call.payload.genre =
              IF call.details.ok /\ call.details.genres # <<>>
              THEN <<"Drama", ", ", "Sci-Fi">>
              ELSE IF EventGenreText # <<>> THEN EventGenreText
              ELSE NA
        /\ call.payload.genre # <<>>

\* TMDB answered without genres and the embed was sent with the event's own.
C32_Witness ==
    /\ call.pc = "sent"
    /\ call.details.ok
    /\ call.details.genres = <<>>
    /\ call.payload.genre = <<"Action", ", ", "Drama">>

\* The row of a guild, and whether the user of the last request is an
\* administrator of the guild it named.
RowOf(rows, g) == {rows[i] : i \in {j \in 1..Len(rows) : rows[j].guild_id = g}}
PostedByAdmin(h) ==
    /\ h.req.authenticated
    /\ h.req.body.guild_id \in Guilds
    /\ \E i \in 1..Len(h.req.guilds) :
          /\ h.req.guilds[i].id = h.req.body.guild_id
          /\ "Administrator" \in h.req.guilds[i].permissions

\* C37: a step changes the stored configurations only as a POST /api/config
\* whose session is authenticated and whose user is a member of the guild g
\* it names with the Administrator permission, and then it changes the row of
\* g only; a POST that is unauthenticated, names no guild or comes from a user
\* who is not an administrator of g leaves every row as it was.
C37_AuthorizedWrites ==
    /\ [][configs' # configs =>
             /\ PostedByAdmin(http')
             /\ http'.status = 200
             /\ \A g \in Guilds \ {http'.req.body.guild_id} :
                   RowOf(configs', g) = RowOf(configs, g)]_vars
    /\ [][(http' # http /\ ~PostedByAdmin(http')) =>
             /\ configs' = configs
             /\ http'.status \in {302, 400, 403}]_vars

\* G2's configuration was written by a user who is an administrator of G2 and
\* a plain member of G1, while G1 has a configuration of its own.
C37_Witness ==
    /\ http.status = 200
    /\ http.req.body.guild_id = "G2"
    /\ http.req.guilds =
          <<[id |-> "G1", permissions |-> {"ManageGuild"}],
            [id |-> "G2", permissions |-> {"Administrator", "ManageGuild"}]>>
    /\ RowOf(configs, "G1") # {}
    /\ RowOf(configs, "G2") = {NewConfig(http.req.body)}

\* The requests for metadata, and the reply of a successful request.
Metadata == {"tmdbDetails", "tmdbExternal", "omdb"}
IsSuccessReply(r) == r.embeds = <<"Successfully Requested!">>
RequestFailed == inter.failed \cap {"jellyseerr", "config"} # {}

\* C38: in handleInteraction with isRequest, every request for metadata is
\* made after the request to Jellyseerr; a reply "Successfully Requested!" is
\* handed to editReply, or shown, only when the request to Jellyseerr was
\* resolved; and when that request failed, no metadata is asked for, the one
\* payload handed to editReply is the error message with no embeds and no
\* components, and that is what is shown once the edit is resolved.
C38_RequestBeforeReply ==
    inter.isRequest =>
        /\ \A i \in 1..Len(inter.log) :
              inter.log[i] \in Metadata =>
                  \E j \in 1..(i - 1) : inter.log[j] = "jellyseerr"
        /\ (\/ IsSuccessReply(inter.shown)
            \/ \E i \in 1..Len(inter.edits) : IsSuccessReply(inter.edits[i]))
              => inter.requested /\ inter.log[1] = "jellyseerr"
        /\ RequestFailed =>
              /\ ~inter.requested
              /\ \A i \in 1..Len(inter.log) : inter.log[i] \notin Metadata
              /\ inter.edits = <<ErrorReply>>
              /\ inter.shown \in {Deferred, ErrorReply}
              /\ (inter.pc = "done" /\ "errorEdit" \notin inter.failed)
                    => inter.shown = ErrorReply

\* The request made from the button was rejected by Jellyseerr, and the reply
\* shows the error message.
C38_Witness ==
    /\ inter.pc = "done"
    /\ inter.entry = "button"
    /\ inter.log = <<"jellyseerr">>
    /\ "jellyseerr" \in inter.failed
    /\ inter.shown = ErrorReply

====
